---- MODULE Spec2Model ----
(***************************************************************************)
(* State-machine model of concerts-rss (src/main.py, src/config.py):       *)
(* the per-region ingestion loop, the first-seen store and the feed        *)
(* builds of main().                                                       *)
(***************************************************************************)
EXTENDS Integers, Sequences, FiniteSets, TLC

(***************************************************************************)
(* Values                                                                  *)
(***************************************************************************)

\* Python None / SQL NULL.
Null == "null"

\* A JSON object or array found where a text value is expected: sqlite3
\* cannot bind it as a statement parameter and execute() raises.
OBJ == "<object>"

\* Python truthiness of an optional text value (None and "" are falsy).
Truthy(x) == x # Null /\ x # ""

\* The `a or b` of Python.
PyOr(a, b) == IF Truthy(a) THEN a ELSE b

(***************************************************************************)
(* Configuration (config.py)                                               *)
(***************************************************************************)

\* The configured region list; the model keeps the first three entries.
STATES == <<"CA", "TX", "OR">>

FRESH_WINDOW_HOURS == 48

SITE_LINK == "https://site/"

(***************************************************************************)
(* Bounds of the model                                                     *)
(***************************************************************************)

\* Longest batch of raw events one fetch returns.
MaxBatch == 2

\* Number of runs of main() against the same database file.
MaxRuns == 2

\* Number of raw events the upstream comes up with over all the runs
\* together (a run that is answered as the first run was gets no new ones).
MaxEvents == 2

(***************************************************************************)
(* Time.  The clock counts ticks; TicksPerHour ticks make an hour.  The    *)
(* part of a time below the hour stands for the sub-second part of a       *)
(* datetime: isoformat() prints it only when it is not zero.               *)
(***************************************************************************)

TicksPerHour == 2

\* datetime.timedelta(hours=h) in ticks.
timedelta(h) == h * TicksPerHour

\* The clock value of the first run's start (72 h after the origin of the
\* calendar, so that every cutoff computed is a date of the calendar).
ClockStart == timedelta(72)

\* Time that passes in one `time.sleep(0.5)`.
SleepTicks == 1

\* The program is started periodically: the time from the start of one run
\* to the start of the next is the freshness window, so that a later run
\* meets rows at the window's edge and rows beyond it.
RunPeriods == {timedelta(FRESH_WINDOW_HOURS)}

\* Character codes, ordered as in ASCII: '+' < '.' < '0' .. '9'.
ChPlus == 43
ChDot == 46
ChDigit(d) == 48 + d

\* Width of the zero-padded whole part ("YYYY-MM-DDTHH:MM:SS" is fixed width).
WholeWidth == 3

RECURSIVE Digits(_, _)
\* n written in w decimal digits, most significant first.
Digits(n, w) ==
    IF w = 0 THEN <<>>
    ELSE Append(Digits(n \div 10, w - 1), ChDigit(n % 10))

\* ts_iso: the ISO-8601 text of a UTC datetime, as a sequence of character
\* codes: the fixed-width whole part, the fraction only when it is not zero,
\* then the "+00:00" offset.
ts_iso(dt) ==
    LET whole == dt \div TicksPerHour
        frac  == dt % TicksPerHour
    IN  Digits(whole, WholeWidth)
          \o (IF frac = 0 THEN <<>>
              ELSE <<ChDot, ChDigit((10 * frac) \div TicksPerHour)>>)
          \o <<ChPlus>>

RECURSIVE StrLess(_, _)
\* s < t for two texts, compared character by character (SQLite's BINARY
\* collation, which is how two TEXT values are compared).
StrLess(s, t) ==
    IF t = <<>> THEN FALSE
    ELSE IF s = <<>> THEN TRUE
    ELSE IF Head(s) # Head(t) THEN Head(s) < Head(t)
    ELSE StrLess(Tail(s), Tail(t))

\* The SQL comparison s >= t on TEXT.
StrGeq(s, t) == ~StrLess(s, t)

(***************************************************************************)
(* Upstream payloads                                                       *)
(***************************************************************************)

NoVenues == <<>>

\* One raw event of the upstream response.  isObject is FALSE for a list
\* element that is not a JSON object; absent keys are Null.
Raw(isObject, id, name, dateTime, localDate, url, venues) ==
    [isObject |-> isObject, id |-> id, name |-> name, dateTime |-> dateTime,
     localDate |-> localDate, url |-> url, venues |-> venues]

Venue(name, city, stateCode) ==
    [name |-> name, city |-> city, stateCode |-> stateCode]

\* An event with nothing but id, name and url.
EvA == Raw(TRUE, "e1", "Show A", Null, Null, "http://a", NoVenues)
\* The same id seen again with another headline, a start time and a venue
\* that reports its own region.
EvA2 == Raw(TRUE, "e1", "Show A (moved)", "2024-05-01T00:00:00Z", Null,
            "http://a", <<Venue("Venue X", "City", "TX")>>)
\* A second id, with a date-only start and a venue without city, in a
\* region that is not one of the configured ones.
EvB == Raw(TRUE, "e2", "Show B", Null, "2024-05-01", Null,
           <<Venue("Venue X", Null, "NV")>>)
\* An object without an id.
EvNoId == Raw(TRUE, Null, "Show C", Null, Null, Null, NoVenues)
\* An object whose name is not text.
EvBadName == Raw(TRUE, "e2", OBJ, Null, Null, Null, NoVenues)
\* A list element that is not an object.
Junk == Raw(FALSE, Null, Null, Null, Null, Null, NoVenues)

RawEvents == {EvA, EvA2, EvB, EvNoId, EvBadName, Junk}

\* All sequences over S of length at most n.
RECURSIVE SeqsUpTo(_, _)
SeqsUpTo(S, n) ==
    IF n = 0 THEN {<<>>}
    ELSE LET shorter == SeqsUpTo(S, n - 1)
         IN  shorter \cup {Append(s, x) : s \in shorter, x \in S}

\* What one HTTP request can come back with: an error status / transport
\* error (ok = FALSE), or a page of raw events.
Responses ==
    {[ok |-> FALSE, events |-> <<>>]}
      \cup {[ok |-> TRUE, events |-> b] : b \in SeqsUpTo(RawEvents, MaxBatch)}

(***************************************************************************)
(* fetch_ticketmaster: the request and the per-event normalisation         *)
(***************************************************************************)

\* FirstVenue taking the last venue of the list.
LastVenue(e) ==
    IF e.venues # <<>> THEN e.venues[Len(e.venues)] ELSE Venue(Null, Null, Null)

\* The first venue of the embedded list, or an empty object.
FirstVenue(e) ==
    IF e.venues # <<>> THEN e.venues[1] ELSE Venue(Null, Null, Null)

\* StartDt with the date-time field not looked at.
StartDtDateOnly(e) ==
    IF Truthy(e.localDate) THEN e.localDate \o "T00:00:00Z" ELSE "T00:00:00Z"

\* start_dt: the combined date-time if present, else the date at midnight
\* UTC, else None.
StartDt(e) ==
    IF Truthy(e.dateTime) THEN e.dateTime
    ELSE IF Truthy(e.localDate) THEN e.localDate \o "T00:00:00Z"
    ELSE Null

\* json.dumps of the payload: its serialised text, kept opaque.
json_dumps(e) == [json |-> e]

\* The dict appended to `out` for one raw event (an object).
normalize(e, state_code) ==
    LET v == FirstVenue(e)
    IN  [id        |-> e.id,
         headline  |-> e.name,
         start_utc |-> StartDt(e),
         venue     |-> v.name,
         city      |-> v.city,
         state     |-> PyOr(v.stateCode, state_code),
         url       |-> e.url,
         source    |-> "ticketmaster",
         raw       |-> e]

\* fetch_ticketmaster(state_code) when the request comes back with `resp`.
\* raised: raise_for_status() or the transport raised, or an element of the
\* event list is not an object (e.get raises AttributeError); then nothing
\* is returned.
fetch_ticketmaster(state_code, resp) ==
    LET bad == \E i \in 1..Len(resp.events) : ~resp.events[i].isObject
    IN  IF ~resp.ok \/ bad
        THEN [raised |-> TRUE, out |-> <<>>]
        ELSE [raised |-> FALSE,
              out |-> [i \in 1..Len(resp.events) |->
                          normalize(resp.events[i], state_code)]]

(***************************************************************************)
(* The events table (ensure_db) and the statements run against it          *)
(***************************************************************************)

\* sqlite3 binds None and text; it raises on a dict or list parameter.
Bindable(v) == v # OBJ

\* SELECT id FROM events WHERE id = ?  (the rows it returns).  A NULL
\* parameter matches no row: `id = NULL` is never true.
SelectById(tbl, id) ==
    IF id = Null THEN {}
    ELSE {i \in 1..Len(tbl) : tbl[i].id = id}

\* The row the INSERT of upsert_events stores for `ev` at time `now`.
NewRow(ev, now) ==
    [id             |-> ev.id,
     headline       |-> ev.headline,
     start_utc      |-> ev.start_utc,
     venue          |-> ev.venue,
     city           |-> ev.city,
     state          |-> ev.state,
     url            |-> ev.url,
     source         |-> ev.source,
     first_seen_utc |-> ts_iso(now),
     raw            |-> json_dumps(ev.raw)]

\* InsertRaises without the PRIMARY KEY on id.
InsertRaisesNoKey(tbl, ev) ==
    \E v \in {ev.id, ev.headline, ev.start_utc, ev.venue, ev.city,
              ev.state, ev.url, ev.source} : ~Bindable(v)

\* The INSERT raises when a parameter cannot be bound, or when the
\* PRIMARY KEY already holds the (non-NULL) id.
InsertRaises(tbl, ev) ==
    \/ \E v \in {ev.id, ev.headline, ev.start_utc, ev.venue, ev.city,
                 ev.state, ev.url, ev.source} : ~Bindable(v)
    \/ SelectById(tbl, ev.id) # {}

\* UpsertStep with the existence check and the key both missing: every
\* bindable event is inserted.
UpsertStepBlind(tbl, ev, count, now) ==
    IF \E v \in {ev.id, ev.headline} : ~Bindable(v)
    THEN [raised |-> TRUE, tbl |-> tbl, count |-> count]
    ELSE [raised |-> FALSE, tbl |-> Append(tbl, NewRow(ev, now)),
          count |-> count + 1]

\* UpsertStep with the `else` branch refreshing the metadata of the row
\* that exists.
UpsertStepRefresh(tbl, ev, count, now) ==
    IF ~Bindable(ev.id) \/ ~Bindable(ev.headline)
    THEN [raised |-> TRUE, tbl |-> tbl, count |-> count]
    ELSE IF SelectById(tbl, ev.id) = {}
    THEN [raised |-> FALSE, tbl |-> Append(tbl, NewRow(ev, now)),
          count |-> count + 1]
    ELSE [raised |-> FALSE,
          tbl |-> [i \in 1..Len(tbl) |->
                     IF tbl[i].id = ev.id
                     THEN [tbl[i] EXCEPT !.headline = ev.headline]
                     ELSE tbl[i]],
          count |-> count]

\* One iteration of the loop of upsert_events on the table as this
\* connection sees it.  raised: a statement raised and the exception leaves
\* upsert_events; otherwise the table and the count after the iteration.
UpsertStep(tbl, ev, count, now) ==
    IF ~Bindable(ev.id)
    THEN [raised |-> TRUE, tbl |-> tbl, count |-> count]
    ELSE IF SelectById(tbl, ev.id) = {}
    THEN IF InsertRaises(tbl, ev)
         THEN [raised |-> TRUE, tbl |-> tbl, count |-> count]
         ELSE [raised |-> FALSE, tbl |-> Append(tbl, NewRow(ev, now)),
               count |-> count + 1]
    ELSE [raised |-> FALSE, tbl |-> tbl, count |-> count]

\* RecentIdx with `>` for `>=` in the WHERE clause.
RecentIdxStrict(tbl, state, fresh_hours, now) ==
    LET cutoff == now - timedelta(fresh_hours)
        param  == ts_iso(cutoff)
    IN  {i \in 1..Len(tbl) :
            /\ Truthy(state) => tbl[i].state = state
            /\ StrLess(param, tbl[i].first_seen_utc)}

\* RecentIdx with the `state = ?` condition missing from the WHERE clause.
RecentIdxAnyState(tbl, state, fresh_hours, now) ==
    LET cutoff == now - timedelta(fresh_hours)
        param  == ts_iso(cutoff)
    IN  {i \in 1..Len(tbl) : StrGeq(tbl[i].first_seen_utc, param)}

\* Indices of the rows the WHERE clause of query_recent keeps.  `if state:`
\* takes the unfiltered branch for None and for "".
RecentIdx(tbl, state, fresh_hours, now) ==
    LET cutoff == now - timedelta(fresh_hours)
        param  == ts_iso(cutoff)
    IN  {i \in 1..Len(tbl) :
            /\ Truthy(state) => tbl[i].state = state
            /\ StrGeq(tbl[i].first_seen_utc, param)}

RECURSIVE OrderAsc(_, _)
\* OrderDesc with ASC for DESC.
OrderAsc(tbl, S) ==
    IF S = {} THEN <<>>
    ELSE LET top == CHOOSE i \in S :
                      \A j \in S :
                         \/ StrLess(tbl[i].first_seen_utc, tbl[j].first_seen_utc)
                         \/ (tbl[j].first_seen_utc = tbl[i].first_seen_utc /\ i <= j)
         IN  <<tbl[top]>> \o OrderAsc(tbl, S \ {top})

RECURSIVE OrderDesc(_, _)
\* ORDER BY first_seen_utc DESC over the rows at indices S: repeatedly the
\* row with the greatest first_seen_utc, the earliest stored among equals.
OrderDesc(tbl, S) ==
    IF S = {} THEN <<>>
    ELSE LET top == CHOOSE i \in S :
                      \A j \in S :
                         \/ StrLess(tbl[j].first_seen_utc, tbl[i].first_seen_utc)
                         \/ (tbl[j].first_seen_utc = tbl[i].first_seen_utc /\ i <= j)
         IN  <<tbl[top]>> \o OrderDesc(tbl, S \ {top})

\* query_recent(conn, state, fresh_hours) at time `now`.
query_recent(tbl, state, fresh_hours, now) ==
    OrderDesc(tbl, RecentIdx(tbl, state, fresh_hours, now))

(***************************************************************************)
(* build_feed                                                              *)
(***************************************************************************)

\* The separator of the summary, " <bullet> ": the character U+2022 between
\* two spaces, written here in ASCII.
Bullet == " <U+2022> "

RECURSIVE Join(_, _)
\* sep.join(bits)
Join(sep, bits) ==
    IF bits = <<>> THEN ""
    ELSE IF Len(bits) = 1 THEN bits[1]
    ELSE bits[1] \o sep \o Join(sep, Tail(bits))

\* SummaryBits with `if city:` for `if city and state:`.
SummaryBitsCityAlone(r) ==
    (IF Truthy(r.venue) THEN <<r.venue>> ELSE <<>>)
      \o (IF Truthy(r.city)
          THEN <<r.city \o ", " \o (IF r.state = Null THEN "None" ELSE r.state)>>
          ELSE <<>>)
      \o (IF Truthy(r.start_utc) THEN <<"Starts: " \o r.start_utc>> ELSE <<>>)

\* summary_bits of one row.
SummaryBits(r) ==
    (IF Truthy(r.venue) THEN <<r.venue>> ELSE <<>>)
      \o (IF Truthy(r.city) /\ Truthy(r.state)
          THEN <<r.city \o ", " \o r.state>> ELSE <<>>)
      \o (IF Truthy(r.start_utc) THEN <<"Starts: " \o r.start_utc>> ELSE <<>>)

\* The feed entry of one row.
FeedEntry(r) ==
    [id          |-> r.id,
     title       |-> PyOr(r.headline, "New event"),
     link        |-> PyOr(r.url, SITE_LINK),
     published   |-> r.first_seen_utc,
     updated     |-> r.first_seen_utc,
     description |-> Join(Bullet, SummaryBits(r))]

\* The document build_feed writes for `rws`: its entries, in the order
\* build_feed adds them (one fg.add_entry() per row).
build_feed(rws, title_suffix) ==
    [title |-> title_suffix, entries |-> [i \in 1..Len(rws) |-> FeedEntry(rws[i])]]

\* st.lower() for the configured regions.
lower(st) ==
    CASE st = "CA" -> "ca" [] st = "TX" -> "tx" [] st = "OR" -> "or"
      [] OTHER -> st

AllFile == "all.xml"
StateFile(st) == lower(st) \o ".xml"
FileNames == {AllFile} \cup {StateFile(STATES[i]) : i \in 1..Len(STATES)}

(***************************************************************************)
(* State                                                                   *)
(***************************************************************************)

VARIABLES
    clock,      \* what now_utc() returns, in ticks
    started,    \* the clock when this run of main() was started
    run,        \* number of the current invocation of main()
    pc,         \* where main() stands
    st_i,       \* index into STATES of the loop main() is in
    events,     \* upsert_events: the events of the batch not yet processed
    inserted,   \* upsert_events: its local counter
    total_new,  \* main: the running total
    rows,       \* the events table as the open connection sees it
    durable,    \* how many of its rows are committed
    warnings,   \* regions named in a "[WARN] .. fetch failed" line of this run
    reported,   \* the number printed by "Done. Inserted new events: .."
    docs,       \* file name -> the document this run has written to it
    written,    \* file names written by this run, in order
    outcome,    \* per region of this run: how its loop iteration ended
    new_by,     \* per region of this run: rows its iteration appended
    served,     \* raw events the upstream has served so far
    first_resp, \* per region: the response its request got in the first run
    replayed,   \* the upstream still answers as it did in the first run
    store1,     \* the committed rows the first run left
    race,       \* several connections in upsert_events on one database file
    call        \* one call of normalize or build_feed: its input and result

\* The variables of one process running main().
mainvars == <<clock, started, run, pc, st_i, events, inserted, total_new, rows,
              durable, warnings, reported, docs, written, outcome, new_by,
              served, first_resp, replayed, store1>>

vars == <<mainvars, race, call>>

NStates == Len(STATES)

NoDoc == [title |-> Null, entries |-> <<>>]

\* The per-run bookkeeping at the start of main().
FreshOutcome == [i \in 1..NStates |-> "todo"]
FreshNewBy == [i \in 1..NStates |-> 0]

\* No response received (yet).
NoResp == [ok |-> FALSE, events |-> <<Null>>]

NoResps == [i \in 1..NStates |-> NoResp]

\* No second connection is open.
NoRace == [db |-> <<>>, writer |-> 0, conn |-> <<>>]

\* No function is called on its own.
NoCall == [fn |-> Null]

\* The state of the process when main() is started for the first time.
InitMain ==
    /\ clock = ClockStart
    /\ started = ClockStart
    /\ run = 1
    /\ pc = "connect"
    /\ st_i = 1
    /\ events = <<>>
    /\ inserted = 0
    /\ total_new = 0
    /\ rows = <<>>
    /\ durable = 0
    /\ warnings = <<>>
    /\ reported = Null
    /\ docs = [f \in FileNames |-> NoDoc]
    /\ written = <<>>
    /\ outcome = FreshOutcome
    /\ new_by = FreshNewBy
    /\ served = 0
    /\ first_resp = NoResps
    /\ replayed = FALSE
    /\ store1 = <<>>

Init ==
    /\ InitMain
    /\ race = NoRace
    /\ call = NoCall

(***************************************************************************)
(* main()                                                                  *)
(***************************************************************************)

\* NextRegion with the feeds built as soon as one region is through.
NextRegionFeedFirst ==
    pc' = "feed_all" /\ st_i' = 1

\* The end of one iteration of `for st in STATES` of the ingestion loop.
NextRegion ==
    IF st_i < NStates
    THEN pc' = "fetch" /\ st_i' = st_i + 1
    ELSE pc' = "feed_all" /\ st_i' = 1

\* Warn with the exception raised again after the warning is printed.
WarnAndRaise(how) ==
    /\ warnings' = Append(warnings, STATES[st_i])
    /\ outcome' = [outcome EXCEPT ![st_i] = how]
    /\ events' = <<>>
    /\ inserted' = 0
    /\ pc' = "aborted"
    /\ st_i' = st_i

\* `except Exception as ex: print("[WARN] ..")` for the current region.
Warn(how) ==
    /\ warnings' = Append(warnings, STATES[st_i])
    /\ outcome' = [outcome EXCEPT ![st_i] = how]
    /\ events' = <<>>
    /\ inserted' = 0
    /\ NextRegion

\* sqlite3.connect(DB_PATH); ensure_db(conn); total_new = 0.  A storage
\* failure (ok = FALSE) leaves main() through the uncaught exception.
EnsureDb ==
    /\ pc = "connect"
    /\ \E ok \in BOOLEAN :
         IF ok
         THEN /\ pc' = "fetch"
              /\ total_new' = 0
         ELSE /\ pc' = "aborted"
              /\ UNCHANGED total_new
    /\ st_i' = 1
    /\ UNCHANGED <<clock, started, run, events, inserted, rows, durable, warnings,
                   reported, docs, written, outcome, new_by, served,
                   first_resp, replayed, store1,
                   race, call>>

\* events = fetch_ticketmaster(st), for every response the request can get.
Fetch ==
    /\ pc = "fetch"
    /\ \E resp \in Responses :
         /\ IF replayed
            THEN resp = first_resp[st_i] /\ UNCHANGED served
            ELSE /\ served + Len(resp.events) <= MaxEvents
                 /\ served' = served + Len(resp.events)
         /\ first_resp' = IF run = 1 THEN [first_resp EXCEPT ![st_i] = resp]
                                     ELSE first_resp
         /\ LET r == fetch_ticketmaster(STATES[st_i], resp)
            IN  IF r.raised
                THEN Warn("fetch_failed")
                ELSE /\ events' = r.out
                     /\ inserted' = 0
                     /\ pc' = "upsert"
                     /\ UNCHANGED <<st_i, warnings, outcome>>
    /\ UNCHANGED <<clock, started, run, total_new, rows, durable, reported, docs,
                   written, new_by, replayed, store1,
                   race, call>>

\* One iteration of `for ev in events` of upsert_events.  An exception
\* leaves upsert_events before conn.commit() and is caught by main().
UpsertOne ==
    /\ pc = "upsert"
    /\ events # <<>>
    /\ LET u == UpsertStep(rows, Head(events), inserted, clock)
       IN  IF u.raised
           THEN /\ Warn("upsert_failed")
                /\ UNCHANGED <<rows, new_by>>
           ELSE /\ rows' = u.tbl
                /\ inserted' = u.count
                /\ new_by' = [new_by EXCEPT ![st_i] = @ + (u.count - inserted)]
                /\ events' = Tail(events)
                /\ UNCHANGED <<pc, st_i, warnings, outcome>>
    /\ UNCHANGED <<clock, started, run, total_new, durable, reported, docs, written,
                   served, first_resp, replayed, store1,
                   race, call>>

\* The end of upsert_events (conn.commit(); return inserted), then
\* `total_new += ..` and time.sleep(0.5) in main().
UpsertCommit ==
    /\ pc = "upsert"
    /\ events = <<>>
    /\ durable' = Len(rows)
    /\ total_new' = total_new + inserted
    /\ inserted' = 0
    /\ clock' = clock + SleepTicks
    /\ outcome' = [outcome EXCEPT ![st_i] = "ok"]
    /\ NextRegion
    /\ UNCHANGED <<started, run, events, rows, warnings, reported, docs,
                   written, new_by, served, first_resp, replayed, store1,
                   race, call>>

\* WriteFeed with the query answered from the committed rows only (as a
\* second connection would see the table).
WriteFeedCommitted(state, title_suffix, filename) ==
    /\ docs' = [docs EXCEPT ![filename] =
                  build_feed(query_recent(SubSeq(rows, 1, durable), state,
                                          FRESH_WINDOW_HOURS, clock),
                             title_suffix)]
    /\ written' = Append(written, filename)

\* rows = query_recent(conn, state, FRESH_WINDOW_HOURS);
\* build_feed(rows, title_suffix, filename): the file is (over)written.
WriteFeed(state, title_suffix, filename) ==
    /\ docs' = [docs EXCEPT ![filename] =
                  build_feed(query_recent(rows, state, FRESH_WINDOW_HOURS, clock),
                             title_suffix)]
    /\ written' = Append(written, filename)

\* A query that fails raises out of main(): nothing catches it.
QueryFails ==
    /\ pc' = "aborted"
    /\ UNCHANGED <<docs, written, st_i, reported>>

\* all_rows = query_recent(conn, None, ..);
\* build_feed(all_rows, "All States", "all.xml")
FeedAll ==
    /\ pc = "feed_all"
    /\ \E ok \in BOOLEAN :
         IF ok
         THEN /\ WriteFeed(Null, "All States", AllFile)
              /\ pc' = "feed_state"
              /\ st_i' = 1
              /\ UNCHANGED reported
         ELSE QueryFails
    /\ UNCHANGED <<clock, started, run, events, inserted, total_new, rows, durable,
                   warnings, outcome, new_by, served, first_resp, replayed,
                   store1,
                   race, call>>

\* One iteration of the second `for st in STATES`; after the last one,
\* print("Done. Inserted new events: ..").
FeedState ==
    /\ pc = "feed_state"
    /\ \E ok \in BOOLEAN :
         IF ok
         THEN /\ WriteFeed(STATES[st_i], STATES[st_i], StateFile(STATES[st_i]))
              /\ IF st_i < NStates
                 THEN pc' = "feed_state" /\ st_i' = st_i + 1 /\ UNCHANGED reported
                 ELSE pc' = "done" /\ st_i' = st_i /\ reported' = total_new
         ELSE QueryFails
    /\ UNCHANGED <<clock, started, run, events, inserted, total_new, rows, durable,
                   warnings, outcome, new_by, served, first_resp, replayed,
                   store1,
                   race, call>>

\* The process ends (normally or by the uncaught exception): what was not
\* committed is rolled back.  Later, main() is started again on the same
\* database file and output directory.
NewRun ==
    /\ pc \in {"done", "aborted"}
    /\ run < MaxRuns
    /\ run' = run + 1
    /\ \E period \in RunPeriods :
         /\ clock' = started + period
         /\ started' = started + period
    /\ rows' = SubSeq(rows, 1, durable)
    /\ pc' = "connect"
    /\ st_i' = 1
    /\ events' = <<>>
    /\ inserted' = 0
    /\ total_new' = 0
    /\ warnings' = <<>>
    /\ reported' = Null
    /\ written' = <<>>
    /\ docs' = [f \in FileNames |-> NoDoc]
    /\ outcome' = FreshOutcome
    /\ new_by' = FreshNewBy
    /\ \E same \in BOOLEAN :
         /\ same => (run = 1 \/ replayed)
         /\ replayed' = same
         /\ first_resp' = IF same THEN first_resp ELSE NoResps
    /\ store1' = IF run = 1 THEN SubSeq(rows, 1, durable) ELSE store1
    /\ UNCHANGED <<durable, served, race, call>>

Next ==
    \/ EnsureDb
    \/ Fetch
    \/ UpsertOne
    \/ UpsertCommit
    \/ FeedAll
    \/ FeedState
    \/ NewRun

Spec == Init /\ [][Next]_vars

(***************************************************************************)
(* Properties                                                              *)
(***************************************************************************)

\* The committed rows: what the database file holds.
Store == SubSeq(rows, 1, durable)

\* The ingestion loop of this run is over.
Ingested == pc \in {"feed_all", "feed_state", "done"}

\* C1: when the second run is answered exactly as the first run was, then
\* at its end the store holds the same rows, with the same firstSeenUtc, as
\* after the first run, and the run reports zero insertions.
C1_Idempotent ==
    (run = 2 /\ replayed /\ pc = "done") =>
        /\ Store = store1
        /\ reported = 0

\* C2: a row that exists is never changed: every row that is still there
\* after a step is as it was, a committed row is still there after every
\* step, and an upsert of an id that has a row leaves the table as it is.
C2_RowFrozen ==
    [][/\ \A i \in 1..Len(rows) : i <= Len(rows') => rows'[i] = rows[i]
       /\ \A i \in 1..durable : i <= durable' /\ i <= Len(rows')
       /\ (pc = "upsert" /\ events # <<>>
             /\ SelectById(rows, Head(events).id) # {}) => rows' = rows]_vars

\* C2 witness: the first run has stored e1 as "Show A" and has since
\* processed a batch that carries e1 with another headline and venue.
C2_Witness ==
    /\ run = 1
    /\ pc = "upsert"
    /\ events = <<>>
    /\ first_resp[st_i].events = <<EvA2>>
    /\ \E i \in 1..Len(rows) : rows[i].id = "e1" /\ rows[i].headline = "Show A"

\* C3: no two rows of the table carry the same id (rows stored without an
\* id carry none).
C3_IdUnique ==
    \A i, j \in 1..Len(rows) :
        (i # j /\ rows[i].id # Null) => rows[i].id # rows[j].id

\* C3 witness: one batch carried the id e1 twice, was upserted to its end,
\* and the table holds e1 once.
C3_Witness ==
    \E k \in 1..NStates :
        /\ run = 1
        /\ outcome[k] = "ok"
        /\ first_resp[k].events = <<EvA, EvA2>>
        /\ Cardinality({i \in 1..Len(rows) : rows[i].id = "e1"}) = 1

RECURSIVE SumOver(_, _, _)
\* The sum of f[i] over the i in 1..n with keep[i].
SumOver(f, keep, n) ==
    IF n = 0 THEN 0
    ELSE (IF keep[n] THEN f[n] ELSE 0) + SumOver(f, keep, n - 1)

\* Rows appended during the iterations of this run that ended normally.
NewByOk == SumOver(new_by, [i \in 1..NStates |-> outcome[i] = "ok"], NStates)

\* Rows appended during this run.
NewByAll == SumOver(new_by, [i \in 1..NStates |-> TRUE], NStates)

\* The region names in the warnings of this run.
Warned == {warnings[k] : k \in 1..Len(warnings)}

\* C4: a failing fetch of one region prints a warning that names the region,
\* adds nothing to the total or to the table, and the loop goes on with the
\* next region (main() is not left); so when the loop is over, the total is
\* the sum of the insertions of the regions whose iteration succeeded.
C4_FailureIsolated ==
    /\ [](Ingested =>
            /\ total_new = NewByOk
            /\ \A i \in 1..NStates :
                  outcome[i] = "fetch_failed" =>
                      new_by[i] = 0 /\ STATES[i] \in Warned)
    /\ [][(pc = "fetch" /\ outcome'[st_i] = "fetch_failed") =>
            /\ warnings' = Append(warnings, STATES[st_i])
            /\ total_new' = total_new
            /\ rows' = rows
            /\ IF st_i < NStates
               THEN pc' = "fetch" /\ st_i' = st_i + 1
               ELSE pc' = "feed_all"]_vars

\* C4 witness: of three regions the second one's fetch failed, the first
\* and the third inserted one row each, and the run reported 2.
C4_Witness ==
    /\ pc = "done"
    /\ outcome = <<"ok", "fetch_failed", "ok">>
    /\ warnings = <<"TX">>
    /\ new_by = <<1, 0, 1>>
    /\ reported = 2

RECURSIVE DigitsValue(_, _)
\* The number written by the first n characters of s.
DigitsValue(s, n) ==
    IF n = 0 THEN 0
    ELSE 10 * DigitsValue(s, n - 1) + (s[n] - ChDigit(0))

\* The instant a stored first_seen_utc text denotes, in ticks.
IsoTicks(s) ==
    DigitsValue(s, WholeWidth) * TicksPerHour
      + (IF s[WholeWidth + 1] = ChDot
         THEN ((s[WholeWidth + 2] - ChDigit(0)) * TicksPerHour + 9) \div 10
         ELSE 0)

\* Time since the row was first seen.
Age(r) == clock - IsoTicks(r.first_seen_utc)

\* The rows of a query result, as a set.
Members(res) == {res[k] : k \in 1..Len(res)}

\* Windows a query is asked for: none, the configured one, and 72 h.
Windows == {0, FRESH_WINDOW_HOURS, 72}

\* A start time far in the future.
FarStart == "2999-01-01T00:00:00Z"

\* main is at one of its query_recent calls.
Querying == pc \in {"feed_all", "feed_state"}

\* C5: whenever query_recent(state=None, fresh_hours=W) is called, a stored
\* row is in the result exactly when now - firstSeenUtc <= W hours, and
\* giving a row another start_utc (none, or one far in the future) does not
\* change which rows are in.
C5_Freshness ==
    Querying =>
    LET age == [i \in 1..Len(rows) |-> Age(rows[i])]
    IN  \A W \in Windows :
           LET idx == RecentIdx(rows, Null, W, clock)
               res == Members(query_recent(rows, Null, W, clock))
           IN  /\ \A i \in 1..Len(rows) :
                     rows[i] \in res <=> age[i] <= timedelta(W)
               /\ \A s \in {Null, FarStart} :
                     RecentIdx([i \in 1..Len(rows) |->
                                   [rows[i] EXCEPT !.start_utc = s]],
                               Null, W, clock) = idx

\* The ids of the entries of a written document.
DocIds(f) == {docs[f].entries[k].id : k \in 1..Len(docs[f].entries)}

\* C5 witness: a run has written all.xml; a row first seen more than the
\* window before is not in it, and a row with a start time, first seen
\* exactly the window before, is.
C5_Witness ==
    /\ pc = "done"
    /\ \E i, j \in 1..Len(rows) :
          /\ Age(rows[i]) > timedelta(FRESH_WINDOW_HOURS)
          /\ rows[i].id \notin DocIds(AllFile)
          /\ rows[j].start_utc # Null
          /\ Age(rows[j]) = timedelta(FRESH_WINDOW_HOURS)
          /\ rows[j].id \in DocIds(AllFile)

\* Region codes a query can be asked for (configured ones and another).
RegionCodes == {STATES[i] : i \in 1..NStates} \cup {"NV"}

\* C6: query_recent(state=R) returns exactly the fresh rows whose stored
\* state is R, whatever region the fetch that stored them was issued for.
C6_RegionFilter ==
    Querying =>
    LET fresh == [i \in 1..Len(rows) |->
                    Age(rows[i]) <= timedelta(FRESH_WINDOW_HOURS)]
    IN  \A R \in RegionCodes :
           LET res == query_recent(rows, R, FRESH_WINDOW_HOURS, clock)
               got == Members(res)
           IN  /\ \A k \in 1..Len(res) : res[k].state = R
               /\ \A i \in 1..Len(rows) :
                     (rows[i].state = R /\ fresh[i]) => rows[i] \in got

\* C6 witness: e1 came with the response for CA, its venue reports TX; the
\* run has written it to tx.xml and not to ca.xml.
C6_Witness ==
    /\ run = 1
    /\ pc = "done"
    /\ first_resp[1].events = <<EvA2>>
    /\ "e1" \in DocIds(StateFile("TX"))
    /\ "e1" \notin DocIds(StateFile("CA"))

\* Rows this run has added to the database file.
RunAdded == durable - (Len(rows) - NewByAll)

\* C7: the number a run reports is the number of rows the run added to the
\* store.
C7_TotalIsRowsAdded ==
    pc = "done" => reported = RunAdded

\* An event every field of which can be stored, with an id.
Insertable(ev) ==
    /\ ev.id # Null
    /\ \A v \in {ev.id, ev.headline, ev.start_utc, ev.venue, ev.city,
                 ev.state, ev.url} : Bindable(v)

\* C8: when the upsert of one record of a batch fails, every later record
\* of the batch whose id has no row is still inserted.
C8_BatchContinues ==
    [][(pc = "upsert" /\ events # <<>> /\ outcome'[st_i] = "upsert_failed") =>
          \A k \in 2..Len(events) :
             (Insertable(events[k]) /\ SelectById(rows, events[k].id) = {})
                => SelectById(rows', events[k].id) # {}]_vars

\* A raw event that is an object and has an id.
WellFormed(e) == e.isObject /\ e.id # Null

\* C9: a raw event that is not an object or has no id never becomes a row,
\* and the well-formed events of its batch are stored all the same.
C9_InvalidDiscarded ==
    /\ \A i \in 1..Len(rows) : rows[i].id # Null
    /\ run = 1 =>
         \A k \in 1..NStates :
            outcome[k] \in {"ok", "fetch_failed"} =>
               \A j \in 1..Len(first_resp[k].events) :
                  WellFormed(first_resp[k].events[j]) =>
                     SelectById(rows, first_resp[k].events[j].id) # {}

\* C10: a run that a storage failure (schema initialisation or a
\* recent-event query) ended has written no feed document.
C10_NoFeedWhenQueryFails ==
    pc = "aborted" => written = <<>>

(***************************************************************************)
(* upsert_events on several connections to one database file (overlapping  *)
(* runs of main()).  Each connection reads the committed table and its own *)
(* uncommitted rows; the first INSERT of a connection takes the file's     *)
(* write lock, which it holds until it commits or its process ends.        *)
(***************************************************************************)

\* Number of connections.
NCallers == 2

Callers == 1..NCallers

\* The batches the callers hold: normalised events of the first region.
RaceEvents == {normalize(e, STATES[1]) : e \in {EvA, EvB}}
RaceBatches == SeqsUpTo(RaceEvents, MaxBatch) \ {<<>>}

\* A connection entering upsert_events with `batch`.  missed: the ids its
\* SELECT found no row for; counted: the ids it has added 1 to `inserted`
\* for; pending: its uncommitted rows.
NewConn(batch) ==
    [pc |-> "select", events |-> batch, batch |-> batch, inserted |-> 0,
     pending |-> <<>>, missed |-> {}, counted |-> {}, result |-> Null]

InitRace ==
    /\ InitMain
    /\ call = NoCall
    /\ \E b \in [Callers -> RaceBatches] :
          race = [db |-> <<>>, writer |-> 0,
                  conn |-> [c \in Callers |-> NewConn(b[c])]]

\* The table as connection c reads it.
View(c) == race.db \o race.conn[c].pending

\* cur.execute("SELECT id FROM events WHERE id = ?"); exists = cur.fetchone()
\* on connection c, for the next event of its batch.
RaceSelect ==
    /\ \E c \in Callers :
         LET k  == race.conn[c]
             ev == Head(k.events)
         IN  /\ k.pc = "select"
             /\ k.events # <<>>
             /\ IF SelectById(View(c), ev.id) # {}
                THEN race' = [race EXCEPT !.conn[c].events = Tail(k.events)]
                ELSE race' = [race EXCEPT
                                !.conn[c].pc = "insert",
                                !.conn[c].missed = @ \cup {ev.id}]
    /\ UNCHANGED <<mainvars, call>>

\* The INSERT on connection c.  While another connection holds the write
\* lock the statement waits (the step is not taken) or gives up with
\* "database is locked"; with the lock it runs against the table as it is
\* then, and raises if the key is there.  The exception leaves upsert_events.
RaceInsert ==
    /\ \E c \in Callers :
         LET k  == race.conn[c]
             ev == Head(k.events)
         IN  /\ k.pc = "insert"
             /\ IF race.writer \notin {0, c}
                THEN race' = [race EXCEPT !.conn[c].pc = "raised"]
                ELSE IF InsertRaises(View(c), ev)
                THEN race' = [race EXCEPT !.writer = c,
                                          !.conn[c].pc = "raised"]
                ELSE race' = [race EXCEPT
                                !.writer = c,
                                !.conn[c].pc = "select",
                                !.conn[c].events = Tail(k.events),
                                !.conn[c].pending = Append(@, NewRow(ev, clock)),
                                !.conn[c].inserted = @ + 1,
                                !.conn[c].counted = @ \cup {ev.id}]
    /\ UNCHANGED <<mainvars, call>>

\* conn.commit(); return inserted  on connection c.
RaceCommit ==
    /\ \E c \in Callers :
         LET k == race.conn[c]
         IN  /\ k.pc = "select"
             /\ k.events = <<>>
             /\ race' = [race EXCEPT
                           !.db = @ \o k.pending,
                           !.writer = IF @ = c THEN 0 ELSE @,
                           !.conn[c].pending = <<>>,
                           !.conn[c].pc = "returned",
                           !.conn[c].result = k.inserted]
    /\ UNCHANGED <<mainvars, call>>

\* After the exception left upsert_events on connection c, main() catches
\* it; what the connection has not committed is committed by its next
\* upsert_events (kept = TRUE) or rolled back when the process ends.
RaceRelease ==
    /\ \E c \in Callers, kept \in BOOLEAN :
         LET k == race.conn[c]
         IN  /\ k.pc = "raised"
             /\ race' = [race EXCEPT
                           !.db = IF kept THEN @ \o k.pending ELSE @,
                           !.writer = IF @ = c THEN 0 ELSE @,
                           !.conn[c].pending = <<>>,
                           !.conn[c].pc = "closed"]
    /\ UNCHANGED <<mainvars, call>>

NextRace ==
    \/ RaceSelect
    \/ RaceInsert
    \/ RaceCommit
    \/ RaceRelease

SpecRace == InitRace /\ [][NextRace]_vars

\* Every row of the file and every uncommitted row of a connection.
RaceRows ==
    LET RECURSIVE Cat(_)
        Cat(n) == IF n = 0 THEN race.db
                  ELSE Cat(n - 1) \o race.conn[n].pending
    IN  Cat(NCallers)

\* The ids of the callers' batches.
RaceIds == {ev.id : ev \in RaceEvents}

\* Every connection has left upsert_events and let go of the file.
RaceOver == \A c \in Callers : race.conn[c].pc \in {"returned", "closed"}

\* The ids of a batch.
BatchIds(b) == {b[i].id : i \in 1..Len(b)}

\* C11: when several connections run upsert_events for the same unseen id,
\* under every interleaving of their SELECTs and INSERTs at most one row
\* with the id exists (committed or not), at most one connection counts the
\* id as inserted, and when all are through, an id that every batch carried
\* has exactly one row.
C11_NoDoubleInsert ==
    \A id \in RaceIds :
        /\ Cardinality(SelectById(RaceRows, id)) <= 1
        /\ Cardinality({c \in Callers : id \in race.conn[c].counted}) <= 1
        /\ (RaceOver /\ \A c \in Callers : id \in BatchIds(race.conn[c].batch))
              => Cardinality(SelectById(race.db, id)) = 1

\* C11 witness: the SELECTs of both connections found no row for e1; one
\* connection returned having counted it, the other left by the exception,
\* and the file holds e1 once.
C11_Witness ==
    /\ RaceOver
    /\ \A c \in Callers : "e1" \in race.conn[c].missed
    /\ \E c \in Callers :
          race.conn[c].pc = "returned" /\ "e1" \in race.conn[c].counted
    /\ \E c \in Callers : race.conn[c].pc = "closed"
    /\ Cardinality(SelectById(race.db, "e1")) = 1

\* The entries of a written document, as a set.
DocEntries(f) == {docs[f].entries[k] : k \in 1..Len(docs[f].entries)}

\* The file names main() writes, in the order it writes them.
FeedOrder == <<AllFile>> \o [i \in 1..NStates |-> StateFile(STATES[i])]

\* C12: a run that ends has written all.xml and one document per configured
\* region, each once and under its own name, and an event is in all.xml
\* exactly when it is in the document of some configured region.
C12_AggregateIsUnion ==
    pc = "done" =>
        /\ written = FeedOrder
        /\ \A a, b \in 1..Len(written) : a # b => written[a] # written[b]
        /\ DocEntries(AllFile) =
              UNION {DocEntries(StateFile(STATES[i])) : i \in 1..NStates}

\* The `state` argument of the query whose result is written to file f.
StateOfFile(f) ==
    IF f = AllFile THEN Null
    ELSE STATES[CHOOSE i \in 1..NStates : StateFile(STATES[i]) = f]

\* The files this run has written.
Written == {written[k] : k \in 1..Len(written)}

\* C13: the rows query_recent returned for a written document are all the
\* rows its WHERE clause keeps, the one first seen later always before the
\* one first seen earlier, and build_feed added one entry per row in that
\* order.
C13_NewestFirst ==
    \A f \in Written :
        LET es  == docs[f].entries
            res == query_recent(rows, StateOfFile(f), FRESH_WINDOW_HOURS, clock)
        IN  /\ Len(res) = Cardinality(RecentIdx(rows, StateOfFile(f),
                                                FRESH_WINDOW_HOURS, clock))
            /\ \A a, b \in 1..Len(res) :
                  IsoTicks(res[a].first_seen_utc) > IsoTicks(res[b].first_seen_utc)
                     => a < b
            /\ Len(es) = Len(res)
            /\ \A k \in 1..Len(res) :
                  /\ es[k].id = res[k].id
                  /\ es[k].published = res[k].first_seen_utc

\* C13 witness: a run has written all.xml with two entries, the first one
\* first seen later than the second.
C13_Witness ==
    /\ pc = "done"
    /\ Len(docs[AllFile].entries) = 2
    /\ IsoTicks(docs[AllFile].entries[1].published)
          > IsoTicks(docs[AllFile].entries[2].published)

(***************************************************************************)
(* build_feed called on its own, on rows of every shape                    *)
(***************************************************************************)

\* Longest row list build_feed is called with.
MaxFeedLen == 2

\* What a text column of a row can hold: NULL, the empty text, a text.
Column(text) == {Null, "", text}

\* Rows as query_recent hands them to build_feed.
FeedRows ==
    {[id |-> "e1", headline |-> "Show A", start_utc |-> s, venue |-> v,
      city |-> c, state |-> st, url |-> "http://a", source |-> "ticketmaster",
      first_seen_utc |-> ts_iso(ClockStart)] :
        s \in Column("2024-05-01T00:00:00Z"), v \in Column("Venue X"),
        c \in Column("City"), st \in Column("ST")}

InitFeed ==
    /\ InitMain
    /\ race = NoRace
    /\ \E rs \in SeqsUpTo(FeedRows, MaxFeedLen) :
          call = [fn |-> "build_feed", rows |-> rs, done |-> FALSE,
                  result |-> Null]

\* build_feed(rows, "All States", "all.xml")
BuildFeed ==
    /\ call.fn = "build_feed"
    /\ ~call.done
    /\ call' = [call EXCEPT !.done = TRUE,
                            !.result = build_feed(call.rows, "All States")]
    /\ UNCHANGED <<mainvars, race>>

NextFeed == BuildFeed

SpecFeed == InitFeed /\ [][NextFeed]_vars

\* The three segments of a row's summary.
SegVenue(r) == r.venue
SegPlace(r) == r.city \o ", " \o r.state
SegStart(r) == "Starts: " \o r.start_utc

\* The description the claim gives for a row, case by case: a segment is in
\* when its source fields are there (not NULL and not empty).
Described(r) ==
    LET v == r.venue \notin {Null, ""}
        p == r.city \notin {Null, ""} /\ r.state \notin {Null, ""}
        s == r.start_utc \notin {Null, ""}
    IN  CASE v /\ p /\ s    -> SegVenue(r) \o Bullet \o SegPlace(r) \o Bullet \o SegStart(r)
          [] v /\ p /\ ~s   -> SegVenue(r) \o Bullet \o SegPlace(r)
          [] v /\ ~p /\ s   -> SegVenue(r) \o Bullet \o SegStart(r)
          [] v /\ ~p /\ ~s  -> SegVenue(r)
          [] ~v /\ p /\ s   -> SegPlace(r) \o Bullet \o SegStart(r)
          [] ~v /\ p /\ ~s  -> SegPlace(r)
          [] ~v /\ ~p /\ s  -> SegStart(r)
          [] OTHER          -> ""

\* C14: the description of every entry build_feed adds is the join with the
\* bullet separator of venue, "city, region" (both needed) and
\* "Starts: startUtc", each left out when its fields are missing; with all
\* three it is "Venue X * City, ST * Starts: 2024-05-01T00:00:00Z" and
\* without city and region "Venue X * Starts: 2024-05-01T00:00:00Z"
\* (* standing for the bullet).
C14_Description ==
    (call.fn = "build_feed" /\ call.done) =>
        /\ Len(call.result.entries) = Len(call.rows)
        /\ \A k \in 1..Len(call.rows) :
              LET r == call.rows[k]
                  d == call.result.entries[k].description
              IN  /\ d = Described(r)
                  /\ (r.venue = "Venue X" /\ r.city = "City" /\ r.state = "ST"
                        /\ r.start_utc = "2024-05-01T00:00:00Z")
                       => d = "Venue X <U+2022> City, ST <U+2022> Starts: 2024-05-01T00:00:00Z"
                  /\ (r.venue = "Venue X" /\ r.city = Null /\ r.state = Null
                        /\ r.start_utc = "2024-05-01T00:00:00Z")
                       => d = "Venue X <U+2022> Starts: 2024-05-01T00:00:00Z"

\* C14 witness: build_feed was called with a row that has venue, city,
\* region and start and a row that has neither city nor region, and has
\* added the two entries.
C14_Witness ==
    /\ call.fn = "build_feed"
    /\ call.done
    /\ Len(call.rows) = 2
    /\ call.rows[1].city = "City" /\ call.rows[1].state = "ST"
    /\ call.rows[2].city = Null /\ call.rows[2].state = Null
    /\ \A k \in 1..2 : call.rows[k].venue = "Venue X"
                         /\ call.rows[k].start_utc = "2024-05-01T00:00:00Z"
    /\ call.result.entries[1].description
          = "Venue X <U+2022> City, ST <U+2022> Starts: 2024-05-01T00:00:00Z"
    /\ call.result.entries[2].description
          = "Venue X <U+2022> Starts: 2024-05-01T00:00:00Z"

(***************************************************************************)
(* The normalisation of one raw event, on payloads of every shape          *)
(***************************************************************************)

\* Longest venue list of a payload.
MaxVenues == 2

\* The first venue of a payload: each of its fields there or not.
FirstVenues ==
    {Venue(n, c, st) : n \in {Null, "Venue X"}, c \in {Null, "City"},
                       st \in Column("TX")}

\* A venue after the first one.
OtherVenue == Venue("Venue Y", "Town", "NV")

VenueLists ==
    {<<>>} \cup {<<v>> \o [i \in 1..n |-> OtherVenue] :
                    v \in FirstVenues, n \in 0..(MaxVenues - 1)}

\* Raw events: every key there or not, and a list element that is no object.
RawInputs ==
    {Raw(TRUE, id, name, dt, ld, url, vs) :
        id \in {Null, "e1"}, name \in {Null, "Show A"},
        dt \in Column("2024-05-01T19:00:00Z"), ld \in Column("2024-05-01"),
        url \in {Null, "http://a"}, vs \in VenueLists}
      \cup {Junk}

InitNormalize ==
    /\ InitMain
    /\ race = NoRace
    /\ \E e \in RawInputs, i \in 1..NStates :
          call = [fn |-> "normalize", e |-> e, state_code |-> STATES[i],
                  done |-> FALSE, result |-> Null]

\* fetch_ticketmaster(state_code) on a response that holds the one event.
Normalize ==
    /\ call.fn = "normalize"
    /\ ~call.done
    /\ call' = [call EXCEPT
                  !.done = TRUE,
                  !.result = fetch_ticketmaster(call.state_code,
                                                [ok |-> TRUE, events |-> <<call.e>>])]
    /\ UNCHANGED <<mainvars, race>>

NextNormalize == Normalize

SpecNormalize == InitNormalize /\ [][NextNormalize]_vars

\* A call of the normalisation has returned or raised.
Normalized == call.fn = "normalize" /\ call.done

\* A payload (an object) without venues and without date fields.
PlainPayload(e) ==
    e.isObject /\ e.dateTime = Null /\ e.localDate = Null /\ e.venues = <<>>

\* C15 as stated: normalising a payload that has id, name and url and no
\* venue, city or date fields does not raise and gives an event with id,
\* headline, url and source set and every other field null, the region code
\* among them.
C15_OnlyCoreFields ==
    (Normalized /\ PlainPayload(call.e)
       /\ call.e.id # Null /\ call.e.name # Null /\ call.e.url # Null) =>
        /\ ~call.result.raised
        /\ LET ev == call.result.out[1]
           IN  /\ ev.id = call.e.id
               /\ ev.headline = call.e.name
               /\ ev.url = call.e.url
               /\ ev.source = "ticketmaster"
               /\ ev.start_utc = Null
               /\ ev.venue = Null
               /\ ev.city = Null
               /\ ev.state = Null

\* C15, amended: normalising a payload without venue, city and date fields
\* does not raise and gives an event with id, headline and url as the
\* payload has them, the source tag, the region code of the request, and
\* null start, venue and city.
C15_CoreAndRegion ==
    (Normalized /\ PlainPayload(call.e)) =>
        /\ ~call.result.raised
        /\ Len(call.result.out) = 1
        /\ LET ev == call.result.out[1]
           IN  /\ ev.id = call.e.id
               /\ ev.headline = call.e.name
               /\ ev.url = call.e.url
               /\ ev.source = "ticketmaster"
               /\ ev.start_utc = Null
               /\ ev.venue = Null
               /\ ev.city = Null
               /\ ev.state = call.state_code
               /\ ev.raw = call.e

\* C15 witness: the payload {id e1, name, url} was normalised for TX.
C15_Witness ==
    /\ Normalized
    /\ call.e = EvA
    /\ call.state_code = "TX"
    /\ ~call.result.raised
    /\ call.result.out[1].id = "e1"
    /\ call.result.out[1].state = "TX"

\* The region code the first venue of a payload reports, if any.
VenueRegion(e) == IF e.venues = <<>> THEN Null ELSE e.venues[1].stateCode

\* C17: the region code of a normalised event is the one the first venue
\* reports when there is one, and the one of the request otherwise; the
\* event is stored under that code, and a query by region returns it for
\* that code and for no other.
C17_RegionResolution ==
    (Normalized /\ call.e.isObject) =>
        LET ev     == call.result.out[1]
            expect == IF VenueRegion(call.e) \notin {Null, ""}
                      THEN VenueRegion(call.e) ELSE call.state_code
            row    == NewRow(ev, clock)
        IN  /\ ~call.result.raised
            /\ ev.state = expect
            /\ row.state = expect
            /\ \A R \in RegionCodes :
                  Len(query_recent(<<row>>, R, FRESH_WINDOW_HOURS, clock))
                     = IF R = expect THEN 1 ELSE 0

\* C17 witness: a payload requested for CA whose first venue reports TX
\* (and whose second venue reports NV) was normalised to region TX.
C17_Witness ==
    /\ Normalized
    /\ call.state_code = "CA"
    /\ Len(call.e.venues) = 2
    /\ call.e.venues[1].stateCode = "TX"
    /\ call.e.venues[2].stateCode = "NV"
    /\ call.result.out[1].state = "TX"

\* The regions whose iteration of the ingestion loop is over.
Through == {i \in 1..NStates : outcome[i] # "todo"}

\* C16: regions are ingested one at a time in list order (the regions that
\* are through are always the first ones of the list, and the one being
\* ingested is the next); a feed document is written only when every region
\* is through; writing a document changes nothing in the store, nothing is
\* stored once a document is written, and every document written is the feed
\* of the store as the ingestion loop left it.
C16_FeedsAfterIngestion ==
    /\ [](/\ \A i \in Through : \A j \in 1..i : j \in Through
          /\ pc \in {"fetch", "upsert"} => Through = 1..(st_i - 1)
          /\ written # <<>> => Through = 1..NStates
          /\ \A f \in Written :
                docs[f].entries =
                   build_feed(query_recent(rows, StateOfFile(f),
                                           FRESH_WINDOW_HOURS, clock), Null).entries)
    /\ [][/\ (written' # written /\ run' = run) =>
                (rows' = rows /\ durable' = durable
                   /\ outcome' = outcome /\ clock' = clock)
          /\ (written # <<>> /\ run' = run) => (rows' = rows /\ durable' = durable)
          /\ (outcome' # outcome /\ run' = run) =>
                \E i \in 1..NStates :
                   /\ Through = 1..(i - 1)
                   /\ outcome' = [outcome EXCEPT ![i] = outcome'[i]]
                   /\ outcome'[i] # "todo"]_vars

\* C16 witness: the first region's fetch failed and was caught, the last
\* region inserted a row, and the run then wrote all four documents, the
\* aggregate one holding that row.
C16_Witness ==
    /\ pc = "done"
    /\ written = FeedOrder
    /\ outcome[1] = "fetch_failed"
    /\ outcome[NStates] = "ok"
    /\ new_by[NStates] = 1
    /\ Len(rows) >= 1
    /\ FeedEntry(rows[Len(rows)]) \in DocEntries(AllFile)

\* The indices of the rows this run has inserted.
RunInserted == (Len(rows) - NewByAll + 1)..Len(rows)

\* The configured region codes.
Configured == {STATES[i] : i \in 1..NStates}

\* C18: with a positive freshness window and a run no longer than the
\* window, every row the run has inserted is an entry of the all.xml the run
\* has written and, when its stored state is a configured region, of that
\* region's document.
C18_InsertedIsInFeed ==
    (/\ pc = "done"
     /\ FRESH_WINDOW_HOURS > 0
     /\ clock - started <= timedelta(FRESH_WINDOW_HOURS)) =>
        \A i \in RunInserted :
            /\ FeedEntry(rows[i]) \in DocEntries(AllFile)
            /\ rows[i].state \in Configured =>
                  FeedEntry(rows[i]) \in DocEntries(StateFile(rows[i].state))

\* C18 witness: the second run found one row in the store, inserted one
\* more under a configured region, and wrote it to all.xml and to the
\* region's document.
C18_Witness ==
    /\ run = 2
    /\ pc = "done"
    /\ Len(rows) = 2
    /\ RunInserted = {2}
    /\ rows[2].state \in Configured
    /\ FeedEntry(rows[2]) \in DocEntries(AllFile)
    /\ FeedEntry(rows[2]) \in DocEntries(StateFile(rows[2].state))

====
